---- MODULE Spec2Model ----
(***************************************************************************)
(* Recipe builders of nemo/collections/llm/recipes: gpt3_175b.py and       *)
(* nemotron4_22b.py.  A recipe call builds a tree of nemo_run Config /     *)
(* Partial nodes.  Nodes are objects with identity, so the model keeps a   *)
(* heap (object id -> object) and every recipe function is an operator     *)
(* from a heap to a heap extended by the nodes it constructs, in Python's  *)
(* evaluation order.  `calls` is the history of calls made by a client of  *)
(* the two modules, each with the structure it returned.                   *)
(***************************************************************************)
EXTENDS Integers, Sequences, FiniteSets, TLC

VARIABLES heap, calls, shape

vars == <<heap, calls, shape>>

\* Number of recipe calls a behaviour makes.
MaxCalls == 2

(***************************************************************************)
(* Objects                                                                 *)
(***************************************************************************)

\* A record with no fields.
NoFields == <<>>

\* The id that stands for Python's None.
NoneId == 0

\* An object: its Python class, for a Config/Partial the target it wraps,
\* its scalar fields, its fields that refer to other objects, and (a list)
\* its items.
Obj(cls, target, attrs, refs, items) ==
    [cls |-> cls, target |-> target, attrs |-> attrs, refs |-> refs, items |-> items]

\* run.Config(target, **fields)
Config(target, attrs, refs) == Obj("Config", target, attrs, refs, <<>>)

\* run.Partial(fn, **fields)
Partial(fn, refs) == Obj("Partial", fn, NoFields, refs, <<>>)

\* A Python list display [x, ...]
List(items) == Obj("list", "list", NoFields, NoFields, items)

\* Construction of an object: a fresh id, one past the heap.
Alloc(h, obj) == [h |-> Append(h, obj), id |-> Len(h) + 1, err |-> "None"]

\* A call that raised: nothing is returned.
Raise(h, exc) == [h |-> h, id |-> NoneId, err |-> exc]

\* An optional keyword argument is <<>> (not passed) or <<v>>.
Opt(kw, dflt) == IF kw = <<>> THEN dflt ELSE kw[1]

\* isinstance(x, T) for the object with id x: a matter of the object's own
\* class, not of the target a Config wraps.
isinstance(h, id, T) == id # NoneId /\ h[id].cls = T

\* x.name = v
SetAttr(h, id, name, v) == [h EXCEPT ![id].attrs[name] = v]

\* lst.append(x)
ListAppend(h, id, x) == [h EXCEPT ![id].items = Append(@, x)]

\* The structure below an object, identities forgotten.
RECURSIVE Deep(_, _)
Deep(h, id) ==
    IF id = NoneId THEN Obj("NoneType", "None", NoFields, NoFields, <<>>)
    ELSE Obj(h[id].cls, h[id].target, h[id].attrs,
             [k \in DOMAIN h[id].refs |-> Deep(h, h[id].refs[k])],
             [i \in DOMAIN h[id].items |-> Deep(h, h[id].items[i])])

\* The objects reachable from an object, itself included.
RECURSIVE Reach(_, _)
Reach(h, id) ==
    IF id = NoneId THEN {}
    ELSE {id} \cup UNION {Reach(h, h[id].refs[k]) : k \in DOMAIN h[id].refs}
              \cup UNION {Reach(h, h[id].items[i]) : i \in DOMAIN h[id].items}

(***************************************************************************)
(* gpt3_175b.py                                                            *)
(***************************************************************************)

\* The module-level object the import binds, built once when
\* tp_overlap_configs.userbuffers is imported.
userbuffers_fp8_h100_h12288_tp4_mbs1_seqlen2048 == 1

\* The overlap profile object itself: a plain instance, not a Config node.
UserbuffersObj ==
    Obj("TransformerLayerTPOverlapCfg", "fp8_h100_h12288_tp4_mbs1_seqlen2048",
        NoFields, NoFields, <<>>)

\* Objects whose fields or items can be assigned after construction.
Mutable(o) == o.cls \in {"Config", "Partial", "list", "TransformerLayerTPOverlapCfg"}

\* Faulty variant of model(): the node is built once and handed out again.
G_model_memoized(h) ==
    IF \E id \in DOMAIN h : h[id].target = "GPTModel"
    THEN [h |-> h, id |-> CHOOSE id \in DOMAIN h : h[id].target = "GPTModel", err |-> "None"]
    ELSE LET c == Alloc(h, Config("GPTConfig175B", NoFields, NoFields))
         IN  Alloc(c.h, Config("GPTModel", NoFields, [config |-> c.id]))

\* gpt3_175b.model()
G_model(h) ==
    LET c == Alloc(h, Config("GPTConfig175B", NoFields, NoFields))
    IN  Alloc(c.h, Config("GPTModel", NoFields, [config |-> c.id]))

\* Defaults of trainer()'s parameters.
G_trainer_defaults ==
    [tensor_parallelism |-> 4, pipeline_parallelism |-> 8,
     pipeline_parallelism_type |-> "torch.bfloat16",
     virtual_pipeline_parallelism |-> 6, context_parallelism |-> 1,
     sequence_parallelism |-> TRUE, num_nodes |-> 64, num_gpus_per_node |-> 8,
     max_steps |-> 1168251]

\* ddp=run.Config(DistributedDataParallelConfig, ...)
G_ddp(h) ==
    Alloc(h, Config("DistributedDataParallelConfig",
                    [check_for_nan_in_grad |-> TRUE, grad_reduce_in_fp32 |-> TRUE,
                     overlap_grad_reduce |-> TRUE, overlap_param_gather |-> TRUE,
                     average_in_collective |-> TRUE],
                    NoFields))

\* strategy = run.Config(nl.MegatronStrategy, ...)
G_strategy(h, kw) ==
    LET d == G_ddp(h)
        D == G_trainer_defaults
    IN  Alloc(d.h, Config("MegatronStrategy",
              [tensor_model_parallel_size |-> Opt(kw.tensor_parallelism, D.tensor_parallelism),
               pipeline_model_parallel_size |-> Opt(kw.pipeline_parallelism, D.pipeline_parallelism),
               pipeline_dtype |-> D.pipeline_parallelism_type,
               virtual_pipeline_model_parallel_size |->
                   Opt(kw.virtual_pipeline_parallelism, D.virtual_pipeline_parallelism),
               context_parallel_size |-> Opt(kw.context_parallelism, D.context_parallelism),
               sequence_parallel |-> D.sequence_parallelism,
               gradient_as_bucket_view |-> TRUE,
               ckpt_async_save |-> TRUE,
               ckpt_parallel_load |-> TRUE],
              [ddp |-> d.id]))

\* recipes.precision.mixed_precision.bf16_with_fp8_mixed(): the precision
\* plugin node, carrying the gradient-reduction-precision flag.
bf16_with_fp8_mixed(h) ==
    Alloc(h, Config("MegatronMixedPrecision",
                    [precision |-> "bf16-mixed", fp8 |-> "hybrid", grad_reduce_in_fp32 |-> TRUE],
                    NoFields))

\* Faulty variant of trainer(): it checks that the parallelism degrees divide
\* the devices and raises when they do not.
G_trainer_validating(h, kw) ==
    LET s == G_strategy(h, kw)
        p == bf16_with_fp8_mixed(s.h)
        D == G_trainer_defaults
        degree == Opt(kw.tensor_parallelism, D.tensor_parallelism)
                      * Opt(kw.pipeline_parallelism, D.pipeline_parallelism)
                      * Opt(kw.context_parallelism, D.context_parallelism)
        world == Opt(kw.num_nodes, D.num_nodes) * Opt(kw.num_gpus_per_node, D.num_gpus_per_node)
    IN  IF world % degree # 0 THEN Raise(h, "ValueError")
        ELSE Alloc(p.h, Config("Trainer",
              [accelerator |-> "gpu",
               accumulate_grad_batches |-> 1,
               devices |-> Opt(kw.num_gpus_per_node, D.num_gpus_per_node),
               limit_test_batches |-> 50,
               limit_val_batches |-> 32,
               log_every_n_steps |-> 10,
               max_steps |-> D.max_steps,
               num_nodes |-> Opt(kw.num_nodes, D.num_nodes),
               use_distributed_sampler |-> FALSE,
               val_check_interval |-> 2000],
              [callbacks |-> Opt(kw.callbacks, NoneId),
               plugins |-> p.id,
               strategy |-> s.id]))

\* gpt3_175b.trainer(**kw)
G_trainer(h, kw) ==
    LET s == G_strategy(h, kw)
        p == bf16_with_fp8_mixed(s.h)
        D == G_trainer_defaults
    IN  Alloc(p.h, Config("Trainer",
              [accelerator |-> "gpu",
               accumulate_grad_batches |-> 1,
               devices |-> Opt(kw.num_gpus_per_node, D.num_gpus_per_node),
               limit_test_batches |-> 50,
               limit_val_batches |-> 32,
               log_every_n_steps |-> 10,
               max_steps |-> D.max_steps,
               num_nodes |-> Opt(kw.num_nodes, D.num_nodes),
               use_distributed_sampler |-> FALSE,
               val_check_interval |-> 2000],
              [callbacks |-> Opt(kw.callbacks, NoneId),
               plugins |-> p.id,
               strategy |-> s.id]))

\* Faulty variant of the callbacks argument: one list kept for every call.
G_timing_callbacks_cached(h) ==
    IF \E id \in DOMAIN h : h[id].cls = "list"
    THEN [h |-> h, id |-> CHOOSE id \in DOMAIN h : h[id].cls = "list", err |-> "None"]
    ELSE LET t == Alloc(h, Config("TimingCallback", NoFields, NoFields))
         IN  Alloc(t.h, List(<<t.id>>))

\* callbacks=[run.Config(TimingCallback)]
G_timing_callbacks(h) ==
    LET t == Alloc(h, Config("TimingCallback", NoFields, NoFields))
    IN  Alloc(t.h, List(<<t.id>>))

\* data=run.Config(MockDataModule, seq_length=2048, global_batch_size=2048, micro_batch_size=2)
G_data(h) ==
    Alloc(h, Config("MockDataModule",
                    [seq_length |-> 2048, global_batch_size |-> 2048, micro_batch_size |-> 2],
                    NoFields))

\* recipes.log.default.tensorboard_logger(name=name)
tensorboard_logger(h, name) ==
    Alloc(h, Config("TensorBoardLogger", [name |-> name], NoFields))

\* recipes.log.default.default_log(dir=dir, name=name, tensorboard_logger=tb)
default_log(h, dir, name, tb) ==
    Alloc(h, Config("NeMoLogger", [log_dir |-> dir, name |-> name], [tensorboard |-> tb]))

\* recipes.optim.adam.distributed_fused_adam_with_cosine_annealing(**kw): the
\* optimizer node holds the schedule values it was given.
distributed_fused_adam_with_cosine_annealing(h, kw) ==
    Alloc(h, Config("MegatronOptimizerModule", kw, NoFields))

\* recipes.log.default.default_resume()
default_resume(h) == Alloc(h, Config("AutoResume", NoFields, NoFields))

\* The keyword arguments of the optimizer recipe that a caller leaves out.
OptimNotPassed ==
    [precision |-> "default", warmup_steps |-> "default", constant_steps |-> "default",
     min_lr |-> "default", max_lr |-> "default", clip_grad |-> "default"]

\* The parameters pretrain_recipe and pretrain_recipe_performance declare.
G_params == {"dir", "name", "num_nodes", "num_gpus_per_node", "fn"}

\* The keyword arguments a call passes.
Passed(a) ==
    {"dir", "name", "num_nodes", "num_gpus_per_node", "fn"}
        \cup {k \in {"global_batch_size", "micro_batch_size", "seq_length"} : a[k] # <<>>}

\* Faulty variant of the trainer() call: the two counts change places.
G_trainer_kw_swapped(a, cb) ==
    [tensor_parallelism |-> <<>>, pipeline_parallelism |-> <<>>,
     virtual_pipeline_parallelism |-> <<>>, context_parallelism |-> <<>>,
     num_nodes |-> <<a.num_gpus_per_node>>, num_gpus_per_node |-> <<a.num_nodes>>,
     callbacks |-> <<cb>>]

\* The keyword arguments pretrain_recipe gives trainer().
G_trainer_kw(a, cb) ==
    [tensor_parallelism |-> <<>>, pipeline_parallelism |-> <<>>,
     virtual_pipeline_parallelism |-> <<>>, context_parallelism |-> <<>>,
     num_nodes |-> <<a.num_nodes>>, num_gpus_per_node |-> <<a.num_gpus_per_node>>,
     callbacks |-> <<cb>>]

\* gpt3_175b.pretrain_recipe(**a)
G_pretrain_recipe(h, a) ==
    IF ~(Passed(a) \subseteq G_params) THEN Raise(h, "TypeError")
    ELSE
    LET m  == G_model(h)
        cb == G_timing_callbacks(m.h)
        t  == G_trainer(cb.h, G_trainer_kw(a, cb.id))
        d  == G_data(t.h)
        tb == tensorboard_logger(d.h, a.name)
        l  == default_log(tb.h, a.dir, a.name, tb.id)
        o  == distributed_fused_adam_with_cosine_annealing(
                  l.h, [OptimNotPassed EXCEPT !.max_lr = "0.9e-4"])
        r  == default_resume(o.h)
    IN  IF t.err # "None" THEN Raise(h, t.err)
        ELSE Alloc(r.h, Partial(a.fn, [model |-> m.id, trainer |-> t.id, data |-> d.id,
                                       log |-> l.id, optim |-> o.id, resume |-> r.id]))

\* Faulty variant of the 175B overlap callback: the 22B deferral limit.
G_overlap_callback_limit22(h) ==
    Alloc(h, Config("MegatronCommOverlapCallback",
                    [tp_comm_overlap |-> TRUE,
                     defer_embedding_wgrad_compute |-> TRUE,
                     wgrad_deferral_limit |-> 22,
                     overlap_param_gather_with_optimizer_step |-> TRUE,
                     align_param_gather |-> TRUE],
                    [tp_comm_overlap_cfg |-> userbuffers_fp8_h100_h12288_tp4_mbs1_seqlen2048]))

\* run.Config(MegatronCommOverlapCallback, ...) of the 175B performance recipe
G_overlap_callback(h) ==
    Alloc(h, Config("MegatronCommOverlapCallback",
                    [tp_comm_overlap |-> TRUE,
                     defer_embedding_wgrad_compute |-> TRUE,
                     wgrad_deferral_limit |-> 50,
                     overlap_param_gather_with_optimizer_step |-> TRUE,
                     align_param_gather |-> TRUE],
                    [tp_comm_overlap_cfg |-> userbuffers_fp8_h100_h12288_tp4_mbs1_seqlen2048]))

\* Faulty variant of the 175B performance recipe: it also clears the ddp
\* node's grad_reduce_in_fp32, as the 22B one sets out to.
G_pretrain_recipe_performance_flipping(h, a) ==
    IF ~(Passed(a) \subseteq G_params) THEN Raise(h, "TypeError")
    ELSE
    LET recipe == G_pretrain_recipe(h, a)
    IN  IF recipe.err # "None" THEN recipe
        ELSE LET c  == G_overlap_callback(recipe.h)
                 tr == c.h[recipe.id].refs.trainer
                 h1 == SetAttr(c.h, c.h[c.h[tr].refs.strategy].refs.ddp,
                               "grad_reduce_in_fp32", FALSE)
             IN  [h |-> ListAppend(h1, h1[tr].refs.callbacks, c.id), id |-> recipe.id,
                  err |-> "None"]

\* gpt3_175b.pretrain_recipe_performance(**a)
G_pretrain_recipe_performance(h, a) ==
    IF ~(Passed(a) \subseteq G_params) THEN Raise(h, "TypeError")
    ELSE
    LET recipe == G_pretrain_recipe(h, a)
    IN  IF recipe.err # "None" THEN recipe
        ELSE LET c  == G_overlap_callback(recipe.h)
                 cb == c.h[c.h[recipe.id].refs.trainer].refs.callbacks
             IN  [h |-> ListAppend(c.h, cb, c.id), id |-> recipe.id, err |-> "None"]

(***************************************************************************)
(* nemotron4_22b.py                                                        *)
(***************************************************************************)

\* recipes.nemotron.nemotron_model(version=NAME)
nemotron_model(h, version) ==
    LET c == Alloc(h, Config("Nemotron4Config22B", NoFields, NoFields))
    IN  Alloc(c.h, Config("NemotronModel", [version |-> version], [config |-> c.id]))

\* nemotron4_22b.model()
N_model(h) == nemotron_model(h, "nemotron4_22b")

\* Defaults of nemotron4_22b.pretrain_recipe's parameters.
N_defaults ==
    [tensor_parallelism |-> 2, pipeline_parallelism |-> 4,
     pipeline_parallelism_type |-> "None", virtual_pipeline_parallelism |-> 10,
     context_parallelism |-> 1, sequence_parallelism |-> FALSE,
     max_steps |-> 300000, precision |-> "bf16-mixed", accumulate_grad_batches |-> 1,
     gradient_clip_val |-> "1.0", limit_test_batches |-> 32, limit_val_batches |-> 32,
     log_every_n_steps |-> 10, val_check_interval |-> 2000,
     global_batch_size |-> 32, micro_batch_size |-> 1, seq_length |-> 4096,
     warmup_steps |-> "500", constant_steps |-> "0", min_lr |-> "1e-5", max_lr |-> "1e-4"]

\* The data-parallel sub-configuration recipes.nemotron.nemotron_trainer
\* gives its strategy.  shape.ddp is the class of the object it puts there:
\* a Config node wrapping DistributedDataParallelConfig, as in
\* gpt3_175b.trainer.
nemotron_ddp(h) ==
    Alloc(h, Obj(shape.ddp, "DistributedDataParallelConfig",
                 [check_for_nan_in_grad |-> TRUE, grad_reduce_in_fp32 |-> TRUE,
                  overlap_grad_reduce |-> TRUE, overlap_param_gather |-> TRUE,
                  average_in_collective |-> TRUE],
                 NoFields, <<>>))

\* The precision plugin nemotron_trainer selects for `precision`.
nemotron_plugins(h, precision) ==
    Alloc(h, Obj(shape.plugins, "MegatronMixedPrecision",
                 [precision |-> precision, grad_reduce_in_fp32 |-> TRUE],
                 NoFields, <<>>))

\* recipes.nemotron.nemotron_trainer(**kw)
nemotron_trainer(h, kw) ==
    LET d == nemotron_ddp(h)
        s == Alloc(d.h, Config("MegatronStrategy",
                 [tensor_model_parallel_size |-> kw.tensor_parallelism,
                  pipeline_model_parallel_size |-> kw.pipeline_parallelism,
                  pipeline_dtype |-> kw.pipeline_parallelism_type,
                  virtual_pipeline_model_parallel_size |-> kw.virtual_pipeline_parallelism,
                  context_parallel_size |-> kw.context_parallelism,
                  sequence_parallel |-> kw.sequence_parallelism],
                 [ddp |-> d.id]))
        p == nemotron_plugins(s.h, kw.precision)
    IN  Alloc(p.h, Config("Trainer",
              [accumulate_grad_batches |-> kw.accumulate_grad_batches,
               devices |-> kw.num_gpus_per_node,
               limit_test_batches |-> kw.limit_test_batches,
               limit_val_batches |-> kw.limit_val_batches,
               log_every_n_steps |-> kw.log_every_n_steps,
               max_steps |-> kw.max_steps,
               num_nodes |-> kw.num_nodes,
               val_check_interval |-> kw.val_check_interval],
              [callbacks |-> kw.callbacks, plugins |-> p.id, strategy |-> s.id]))

\* callbacks=[run.Config(TimingCallback)]
N_timing_callbacks(h) ==
    LET t == Alloc(h, Config("TimingCallback", NoFields, NoFields))
    IN  Alloc(t.h, List(<<t.id>>))

\* The keyword arguments nemotron4_22b.pretrain_recipe gives nemotron_trainer().
N_trainer_kw(a, cb) ==
    LET D == N_defaults
    IN  [tensor_parallelism |-> D.tensor_parallelism,
         pipeline_parallelism |-> D.pipeline_parallelism,
         pipeline_parallelism_type |-> D.pipeline_parallelism_type,
         virtual_pipeline_parallelism |-> D.virtual_pipeline_parallelism,
         context_parallelism |-> D.context_parallelism,
         sequence_parallelism |-> D.sequence_parallelism,
         num_nodes |-> a.num_nodes,
         num_gpus_per_node |-> a.num_gpus_per_node,
         max_steps |-> D.max_steps,
         precision |-> D.precision,
         accumulate_grad_batches |-> D.accumulate_grad_batches,
         limit_test_batches |-> D.limit_test_batches,
         limit_val_batches |-> D.limit_val_batches,
         log_every_n_steps |-> D.log_every_n_steps,
         val_check_interval |-> D.val_check_interval,
         callbacks |-> cb]

\* Faulty variant of the 22B data node: the global batch size is scaled by
\* the node count.
N_data_scaled(h, a) ==
    Alloc(h, Config("MockDataModule",
                    [seq_length |-> Opt(a.seq_length, N_defaults.seq_length),
                     global_batch_size |->
                         Opt(a.global_batch_size, N_defaults.global_batch_size) * a.num_nodes,
                     micro_batch_size |-> Opt(a.micro_batch_size, N_defaults.micro_batch_size)],
                    NoFields))

\* data=run.Config(MockDataModule, seq_length=seq_length, global_batch_size=..., micro_batch_size=...)
N_data(h, a) ==
    Alloc(h, Config("MockDataModule",
                    [seq_length |-> Opt(a.seq_length, N_defaults.seq_length),
                     global_batch_size |-> Opt(a.global_batch_size, N_defaults.global_batch_size),
                     micro_batch_size |-> Opt(a.micro_batch_size, N_defaults.micro_batch_size)],
                    NoFields))

\* nemotron4_22b.pretrain_recipe(**a)
N_pretrain_recipe(h, a) ==
    LET D  == N_defaults
        m  == N_model(h)
        cb == N_timing_callbacks(m.h)
        t  == nemotron_trainer(cb.h, N_trainer_kw(a, cb.id))
        d  == N_data(t.h, a)
        tb == tensorboard_logger(d.h, a.name)
        l  == default_log(tb.h, a.dir, a.name, tb.id)
        o  == distributed_fused_adam_with_cosine_annealing(
                  l.h, [precision |-> D.precision, warmup_steps |-> D.warmup_steps,
                        constant_steps |-> D.constant_steps, min_lr |-> D.min_lr,
                        max_lr |-> D.max_lr, clip_grad |-> D.gradient_clip_val])
        r  == default_resume(o.h)
    IN  Alloc(r.h, Partial(a.fn, [model |-> m.id, trainer |-> t.id, data |-> d.id,
                                  log |-> l.id, optim |-> o.id, resume |-> r.id]))

\* The parameters nemotron4_22b.pretrain_recipe_performance declares.
N_performance_params == {"dir", "name", "num_nodes", "num_gpus_per_node", "fn"}

\* run.Config(MegatronCommOverlapCallback, ...) of the 22B performance recipe
N_overlap_callback(h) ==
    Alloc(h, Config("MegatronCommOverlapCallback",
                    [tp_comm_overlap |-> TRUE,
                     defer_embedding_wgrad_compute |-> TRUE,
                     wgrad_deferral_limit |-> 22],
                    NoFields))

\* Faulty variant of the guarded assignment: no guard.
N_unguarded_flip(h, id, T) == SetAttr(h, id, "grad_reduce_in_fp32", FALSE)

\* if isinstance(x, T): x.grad_reduce_in_fp32=False
N_guarded_flip(h, id, T) ==
    IF isinstance(h, id, T) THEN SetAttr(h, id, "grad_reduce_in_fp32", FALSE) ELSE h

\* nemotron4_22b.pretrain_recipe_performance(**a)
N_pretrain_recipe_performance(h, a) ==
    IF ~(Passed(a) \subseteq N_performance_params) THEN Raise(h, "TypeError")
    ELSE
    LET recipe == N_pretrain_recipe(h, a)
        tr == recipe.h[recipe.id].refs.trainer
        h1 == N_guarded_flip(recipe.h, recipe.h[tr].refs.plugins, "MegatronMixedPrecision")
        h2 == N_guarded_flip(h1, h1[h1[tr].refs.strategy].refs.ddp,
                             "DistributedDataParallelConfig")
        c  == N_overlap_callback(h2)
    IN  [h |-> ListAppend(c.h, c.h[tr].refs.callbacks, c.id), id |-> recipe.id, err |-> "None"]

(***************************************************************************)
(* The client                                                              *)
(***************************************************************************)

\* Arguments a client passes to the recipes.
RunArgs ==
    {[dir |-> "None", name |-> "default", num_nodes |-> 1, num_gpus_per_node |-> 8, fn |-> "pretrain"],
     [dir |-> "None", name |-> "default", num_nodes |-> 64, num_gpus_per_node |-> 8, fn |-> "pretrain"],
     [dir |-> "/results", name |-> "run1", num_nodes |-> 2, num_gpus_per_node |-> 4, fn |-> "finetune"]}

NoDataKw == [global_batch_size |-> <<>>, micro_batch_size |-> <<>>, seq_length |-> <<>>]

\* Batch-size keyword arguments a client may add.
DataKw ==
    {NoDataKw,
     [global_batch_size |-> <<64>>, micro_batch_size |-> <<>>, seq_length |-> <<>>],
     [global_batch_size |-> <<64>>, micro_batch_size |-> <<2>>, seq_length |-> <<2048>>]}

\* r @@ s for records
Merge(r, s) == [k \in DOMAIN r \cup DOMAIN s |-> IF k \in DOMAIN r THEN r[k] ELSE s[k]]

RecipeArgs == {Merge(a, d) : a \in RunArgs, d \in DataKw}

\* Keyword arguments a client passes to trainer().
TrainerKw ==
    {[tensor_parallelism |-> tp, pipeline_parallelism |-> <<>>,
      virtual_pipeline_parallelism |-> <<>>, context_parallelism |-> <<>>,
      num_nodes |-> n, num_gpus_per_node |-> <<>>, callbacks |-> <<>>]
        : tp \in {<<>>, <<3>>}, n \in {<<>>, <<1>>}}

\* A call of `fn` with `args` whose evaluation gave `r`: the heap keeps what
\* was built, and the history records what came back.
Call(fn, args, r) ==
    /\ Len(calls) < MaxCalls
    /\ heap' = (IF r.err = "None" THEN r.h ELSE heap)
    /\ calls' = Append(calls, [fn |-> fn, args |-> args, err |-> r.err, root |-> r.id,
                               ret |-> IF r.err = "None" THEN Deep(r.h, r.id) ELSE NoFields])
    /\ UNCHANGED shape

G_model_call == Call("gpt3_175b.model", NoFields, G_model(heap))

G_trainer_call == \E kw \in TrainerKw : Call("gpt3_175b.trainer", kw, G_trainer(heap, kw))

G_pretrain_recipe_call ==
    \E a \in RecipeArgs : Call("gpt3_175b.pretrain_recipe", a, G_pretrain_recipe(heap, a))

G_pretrain_recipe_performance_call ==
    \E a \in RecipeArgs :
        Call("gpt3_175b.pretrain_recipe_performance", a, G_pretrain_recipe_performance(heap, a))

N_model_call == Call("nemotron4_22b.model", NoFields, N_model(heap))

N_pretrain_recipe_call ==
    \E a \in RecipeArgs : Call("nemotron4_22b.pretrain_recipe", a, N_pretrain_recipe(heap, a))

N_pretrain_recipe_performance_call ==
    \E a \in RecipeArgs :
        Call("nemotron4_22b.pretrain_recipe_performance", a,
             N_pretrain_recipe_performance(heap, a))

Init ==
    /\ heap = <<UserbuffersObj>>
    /\ calls = <<>>
    /\ shape = [plugins |-> "Config", ddp |-> "Config"]

Next ==
    \/ G_model_call
    \/ G_trainer_call
    \/ G_pretrain_recipe_call
    \/ G_pretrain_recipe_performance_call
    \/ N_model_call
    \/ N_pretrain_recipe_call
    \/ N_pretrain_recipe_performance_call

Spec == Init /\ [][Next]_vars

\* The 22B recipes alone, over every class the objects nemotron_trainer puts
\* under trainer.plugins and trainer.strategy.ddp may have: a Config node or
\* a built instance of the wrapped type.
InitShape ==
    /\ heap = <<UserbuffersObj>>
    /\ calls = <<>>
    /\ shape \in [plugins : {"Config", "MegatronMixedPrecision"},
                  ddp : {"Config", "DistributedDataParallelConfig"}]

NextShape ==
    \/ N_pretrain_recipe_call
    \/ N_pretrain_recipe_performance_call

SpecShape == InitShape /\ [][NextShape]_vars

\* gpt3_175b.trainer alone, over every combination of passed and defaulted
\* parallelism degrees and device counts.
TrainerSweepKw ==
    {[tensor_parallelism |-> tp, pipeline_parallelism |-> pp,
      virtual_pipeline_parallelism |-> vp, context_parallelism |-> cp,
      num_nodes |-> n, num_gpus_per_node |-> g, callbacks |-> <<>>]
        : tp \in {<<>>, <<3>>}, pp \in {<<>>, <<5>>}, vp \in {<<>>, <<2>>},
          cp \in {<<>>, <<2>>}, n \in {<<>>, <<1>>}, g \in {<<>>, <<4>>}}

G_trainer_sweep_call ==
    \E kw \in TrainerSweepKw : Call("gpt3_175b.trainer", kw, G_trainer(heap, kw))

SpecTrainer == Init /\ [][G_trainer_sweep_call]_vars

(***************************************************************************)
(* Properties                                                              *)
(***************************************************************************)

Returned(i) == calls[i].err = "None"

\* Paths into a returned structure.
CallbacksOf(t) == t.refs.trainer.refs.callbacks.items
StrategyOf(t)  == t.refs.trainer.refs.strategy
DdpOf(t)       == t.refs.trainer.refs.strategy.refs.ddp
PluginsOf(t)   == t.refs.trainer.refs.plugins

BaseFns == {"gpt3_175b.pretrain_recipe", "nemotron4_22b.pretrain_recipe"}
PerfFns == {"gpt3_175b.pretrain_recipe_performance", "nemotron4_22b.pretrain_recipe_performance"}

\* The performance recipe of the file a base recipe is in.
PerfOf(fn) ==
    IF fn = "gpt3_175b.pretrain_recipe" THEN "gpt3_175b.pretrain_recipe_performance"
    ELSE "nemotron4_22b.pretrain_recipe_performance"

\* calls[i] is a base recipe and calls[j] the performance recipe of the same
\* file with the same arguments, and both returned.
BasePerfPair(i, j) ==
    /\ calls[i].fn \in BaseFns
    /\ calls[j].fn = PerfOf(calls[i].fn)
    /\ calls[i].args = calls[j].args
    /\ Returned(i) /\ Returned(j)

\* C1: every tree nemotron4_22b.pretrain_recipe_performance returns has
\* trainer.strategy.ddp.grad_reduce_in_fp32 = False and a callbacks list that
\* includes a MegatronCommOverlapCallback node with wgrad_deferral_limit = 22.
C1_PerfDdpFlagFalse ==
    \A i \in DOMAIN calls :
        (calls[i].fn = "nemotron4_22b.pretrain_recipe_performance" /\ Returned(i)) =>
            /\ DdpOf(calls[i].ret).attrs.grad_reduce_in_fp32 = FALSE
            /\ \E k \in DOMAIN CallbacksOf(calls[i].ret) :
                   /\ CallbacksOf(calls[i].ret)[k].target = "MegatronCommOverlapCallback"
                   /\ CallbacksOf(calls[i].ret)[k].attrs.wgrad_deferral_limit = 22

\* The overlap callback node each file documents.
DocumentedOverlap(fn) ==
    IF fn = "gpt3_175b.pretrain_recipe_performance"
    THEN Obj("Config", "MegatronCommOverlapCallback",
             [tp_comm_overlap |-> TRUE, defer_embedding_wgrad_compute |-> TRUE,
              wgrad_deferral_limit |-> 50, overlap_param_gather_with_optimizer_step |-> TRUE,
              align_param_gather |-> TRUE],
             [tp_comm_overlap_cfg |-> UserbuffersObj], <<>>)
    ELSE Obj("Config", "MegatronCommOverlapCallback",
             [tp_comm_overlap |-> TRUE, defer_embedding_wgrad_compute |-> TRUE,
              wgrad_deferral_limit |-> 22],
             NoFields, <<>>)

\* C2: the performance recipe's callbacks list is the base recipe's list for
\* the same arguments, in order, followed by exactly one entry: the
\* MegatronCommOverlapCallback node with the documented field values.
C2_OneMoreCallback ==
    /\ \A i, j \in DOMAIN calls :
           BasePerfPair(i, j) =>
               LET b == CallbacksOf(calls[i].ret)
                   p == CallbacksOf(calls[j].ret)
               IN  /\ Len(p) = Len(b) + 1
                   /\ SubSeq(p, 1, Len(b)) = b
    /\ \A j \in DOMAIN calls :
           (calls[j].fn \in PerfFns /\ Returned(j)) =>
               LET p == CallbacksOf(calls[j].ret)
               IN  Len(p) >= 1 /\ p[Len(p)] = DocumentedOverlap(calls[j].fn)

\* A base recipe and the 175B performance recipe were both called with the
\* same arguments.
C2_Witness ==
    \E i, j \in DOMAIN calls :
        BasePerfPair(i, j) /\ calls[j].fn = "gpt3_175b.pretrain_recipe_performance"

\* C3: whatever calls came before, a base recipe returns a callbacks list
\* holding only the TimingCallback node and grad_reduce_in_fp32 flags at
\* their base value, and a performance recipe returns exactly two callbacks.
C3_BaseDefaultsKept ==
    \A i \in DOMAIN calls :
        /\ (calls[i].fn \in BaseFns /\ Returned(i)) =>
               /\ Len(CallbacksOf(calls[i].ret)) = 1
               /\ CallbacksOf(calls[i].ret)[1].target = "TimingCallback"
               /\ DdpOf(calls[i].ret).attrs.grad_reduce_in_fp32 = TRUE
               /\ PluginsOf(calls[i].ret).attrs.grad_reduce_in_fp32 = TRUE
        /\ (calls[i].fn \in PerfFns /\ Returned(i)) =>
               Len(CallbacksOf(calls[i].ret)) = 2

\* A base recipe returned after a performance recipe of the same file had.
C3_Witness ==
    \E i, j \in DOMAIN calls :
        /\ i < j
        /\ calls[i].fn \in PerfFns /\ Returned(i)
        /\ calls[j].fn \in BaseFns /\ PerfOf(calls[j].fn) = calls[i].fn /\ Returned(j)

\* C4: no mutable object reachable from one returned tree is the same
\* instance as one reachable from another returned tree.
C4_NoSharedMutable ==
    \A i, j \in DOMAIN calls :
        (i # j /\ Returned(i) /\ Returned(j)) =>
            \A o \in Reach(heap, calls[i].root) \cap Reach(heap, calls[j].root) :
                ~Mutable(heap[o])

DataKeys == {"global_batch_size", "micro_batch_size", "seq_length"}

\* C6 as stated: for every recipe, base and performance variant of both
\* files, a call that passes batch-size or sequence-length arguments returns
\* a tree whose data node holds exactly those values.
C6_DataEqualsArgs ==
    \A i \in DOMAIN calls :
        calls[i].fn \in BaseFns \cup PerfFns =>
            \A k \in DataKeys :
                calls[i].args[k] # <<>> =>
                    Returned(i) /\ calls[i].ret.refs.data.attrs[k] = calls[i].args[k][1]

\* C6 amended: nemotron4_22b.pretrain_recipe puts each passed value (its
\* default when not passed) into the data node unchanged; the other three
\* recipes take no such arguments, reject them with a TypeError, and return
\* the fixed data node of their base recipe.
C6_DataFromArgsOnly22BBase ==
    \A i \in DOMAIN calls :
        /\ calls[i].fn = "nemotron4_22b.pretrain_recipe" =>
               /\ Returned(i)
               /\ calls[i].ret.refs.data.attrs =
                      [global_batch_size |-> Opt(calls[i].args.global_batch_size, 32),
                       micro_batch_size |-> Opt(calls[i].args.micro_batch_size, 1),
                       seq_length |-> Opt(calls[i].args.seq_length, 4096)]
        /\ calls[i].fn \in (BaseFns \cup PerfFns) \ {"nemotron4_22b.pretrain_recipe"} =>
               IF \E k \in DataKeys : calls[i].args[k] # <<>>
               THEN calls[i].err = "TypeError"
               ELSE /\ Returned(i)
                    /\ calls[i].ret.refs.data.attrs =
                           IF calls[i].fn = "nemotron4_22b.pretrain_recipe_performance"
                           THEN [global_batch_size |-> 32, micro_batch_size |-> 1,
                                 seq_length |-> 4096]
                           ELSE [global_batch_size |-> 2048, micro_batch_size |-> 2,
                                 seq_length |-> 2048]

\* nemotron4_22b.pretrain_recipe returned for a call that passed all three.
C6_Witness ==
    \E i \in DOMAIN calls :
        /\ calls[i].fn = "nemotron4_22b.pretrain_recipe" /\ Returned(i)
        /\ \A k \in DataKeys : calls[i].args[k] # <<>>

\* C7: gpt3_175b.pretrain_recipe puts num_nodes and num_gpus_per_node into
\* trainer.num_nodes and trainer.devices and leaves every strategy field at
\* the default of trainer(): (64, 8) gives num_nodes 64, devices 8, tensor
\* parallel size 4 and pipeline parallel size 8.
C7_DefaultsFlowThrough ==
    \A i \in DOMAIN calls :
        (calls[i].fn = "gpt3_175b.pretrain_recipe" /\ Returned(i)) =>
            /\ calls[i].ret.refs.trainer.attrs.num_nodes = calls[i].args.num_nodes
            /\ calls[i].ret.refs.trainer.attrs.devices = calls[i].args.num_gpus_per_node
            /\ StrategyOf(calls[i].ret).attrs =
                   [tensor_model_parallel_size |-> 4, pipeline_model_parallel_size |-> 8,
                    pipeline_dtype |-> "torch.bfloat16",
                    virtual_pipeline_model_parallel_size |-> 6,
                    context_parallel_size |-> 1, sequence_parallel |-> TRUE,
                    gradient_as_bucket_view |-> TRUE, ckpt_async_save |-> TRUE,
                    ckpt_parallel_load |-> TRUE]

\* gpt3_175b.pretrain_recipe(num_nodes=64, num_gpus_per_node=8) returned.
C7_Witness ==
    \E i \in DOMAIN calls :
        /\ calls[i].fn = "gpt3_175b.pretrain_recipe" /\ Returned(i)
        /\ calls[i].args.num_nodes = 64 /\ calls[i].args.num_gpus_per_node = 8
        /\ calls[i].ret.refs.trainer.attrs.num_nodes = 64

\* C8: in nemotron4_22b.pretrain_recipe_performance each guard acts alone:
\* a field that is not an instance of the checked type keeps the
\* grad_reduce_in_fp32 the base recipe gave it, a field that is has it set to
\* False, and either way no error is raised and the overlap callback is
\* appended.
C8_GuardsDegradeSilently ==
    \A i \in DOMAIN calls :
        (calls[i].fn = "nemotron4_22b.pretrain_recipe_performance"
             /\ \A k \in DataKeys : calls[i].args[k] = <<>>) =>
            /\ Returned(i)
            /\ PluginsOf(calls[i].ret).attrs.grad_reduce_in_fp32 =
                   (PluginsOf(calls[i].ret).cls # "MegatronMixedPrecision")
            /\ DdpOf(calls[i].ret).attrs.grad_reduce_in_fp32 =
                   (DdpOf(calls[i].ret).cls # "DistributedDataParallelConfig")
            /\ Len(CallbacksOf(calls[i].ret)) = 2
            /\ CallbacksOf(calls[i].ret)[2].target = "MegatronCommOverlapCallback"

\* The performance recipe returned with one guard failed and the other
\* passed.
C8_Witness ==
    \E i \in DOMAIN calls :
        /\ calls[i].fn = "nemotron4_22b.pretrain_recipe_performance" /\ Returned(i)
        /\ PluginsOf(calls[i].ret).cls = "Config"
        /\ PluginsOf(calls[i].ret).attrs.grad_reduce_in_fp32 = TRUE
        /\ DdpOf(calls[i].ret).cls = "DistributedDataParallelConfig"
        /\ DdpOf(calls[i].ret).attrs.grad_reduce_in_fp32 = FALSE

\* The product of the parallelism degrees a trainer() call asks for.
ParallelDegree(kw) ==
    Opt(kw.tensor_parallelism, 4) * Opt(kw.pipeline_parallelism, 8)
        * Opt(kw.context_parallelism, 1)

\* The devices a trainer() call asks for.
WorldSize(kw) == Opt(kw.num_nodes, 64) * Opt(kw.num_gpus_per_node, 8)

\* C9: gpt3_175b.trainer returns a configuration for every combination of
\* parallelism degrees and device counts, never an error, with each passed
\* value copied unchanged into its strategy or trainer field.
C9_NoValidation ==
    \A i \in DOMAIN calls :
        calls[i].fn = "gpt3_175b.trainer" =>
            LET kw == calls[i].args
                t  == calls[i].ret
            IN  /\ Returned(i)
                /\ t.refs.strategy.attrs.tensor_model_parallel_size = Opt(kw.tensor_parallelism, 4)
                /\ t.refs.strategy.attrs.pipeline_model_parallel_size =
                       Opt(kw.pipeline_parallelism, 8)
                /\ t.refs.strategy.attrs.virtual_pipeline_model_parallel_size =
                       Opt(kw.virtual_pipeline_parallelism, 6)
                /\ t.refs.strategy.attrs.context_parallel_size = Opt(kw.context_parallelism, 1)
                /\ t.attrs.num_nodes = Opt(kw.num_nodes, 64)
                /\ t.attrs.devices = Opt(kw.num_gpus_per_node, 8)

\* trainer() returned for degrees whose product does not divide the devices.
C9_Witness ==
    \E i \in DOMAIN calls :
        /\ calls[i].fn = "gpt3_175b.trainer" /\ Returned(i)
        /\ calls[i].args.tensor_parallelism = <<3>>
        /\ WorldSize(calls[i].args) % ParallelDegree(calls[i].args) # 0

\* A returned structure without what the performance recipes are said to
\* change: the callbacks and, in the 22B file, the two grad_reduce_in_fp32.
Frame(t, fn) ==
    LET u == [t EXCEPT !.refs.trainer.refs.callbacks.items = <<>>]
    IN  IF fn \in {"nemotron4_22b.pretrain_recipe", "nemotron4_22b.pretrain_recipe_performance"}
        THEN [u EXCEPT !.refs.trainer.refs.plugins.attrs.grad_reduce_in_fp32 = TRUE,
                       !.refs.trainer.refs.strategy.refs.ddp.attrs.grad_reduce_in_fp32 = TRUE]
        ELSE u

\* C10: for the same arguments the performance recipe's tree differs from
\* the base recipe's only in trainer.callbacks and, in the 22B file, in
\* grad_reduce_in_fp32 of trainer.plugins and trainer.strategy.ddp; the 175B
\* performance recipe leaves strategy.ddp.grad_reduce_in_fp32 at True.
C10_PerformanceFrame ==
    /\ \A i, j \in DOMAIN calls :
           BasePerfPair(i, j) =>
               Frame(calls[j].ret, calls[j].fn) = Frame(calls[i].ret, calls[i].fn)
    /\ \A j \in DOMAIN calls :
           (calls[j].fn = "gpt3_175b.pretrain_recipe_performance" /\ Returned(j)) =>
               DdpOf(calls[j].ret).attrs.grad_reduce_in_fp32 = TRUE

\* The 22B base and performance recipes both returned for the same
\* arguments.
C10_Witness ==
    \E i, j \in DOMAIN calls :
        BasePerfPair(i, j) /\ calls[j].fn = "nemotron4_22b.pretrain_recipe_performance"
====
